---- MODULE Spec2Model ----
(***************************************************************************)
(* Model of cpp/src/converter.cpp: the DXF line-record reader              *)
(* (parseDxfEntities), the per-entity geometry builders, the conversion    *)
(* entry points that stage their input in a temporary file, and the DXF    *)
(* writer (convertToDxf).                                                  *)
(*                                                                         *)
(* Text.  A std::string is modelled by what the code reads from it: its    *)
(* kind (blank, decimal integer literal, decimal literal with a point,     *)
(* exponent literal, or a word that does not start with a digit), the      *)
(* number it denotes and, for a word, its letters.  Numbers denoted by     *)
(* "real" and "sci" texts and all double values are counted in tenths.     *)
(* A raw line of the stream is a text plus the fact that it is surrounded  *)
(* by whitespace.                                                          *)
(***************************************************************************)
EXTENDS Integers, Sequences, FiniteSets, TLC

\* ------------------------------------------------------------------ bounds
MaxLines == 6

\* INT_MAX: the largest value std::stoi returns
IntMax == 2147483647

\* ------------------------------------------------------------------- text
Txt(k, n, s) == [k |-> k, n |-> n, s |-> s]
Empty == Txt("blank", 0, "")
IntTxt(n) == Txt("int", n, "")
RealTxt(t) == Txt("real", t, "")
SciTxt(t) == Txt("sci", t, "")
Word(s) == Txt("word", 0, s)
\* digits followed by letters, such as "3DFACE"
NumWord(n, s) == Txt("numword", n, s)
\* a decimal integer literal above INT_MAX, such as "99999999999"
BigTxt == Txt("big", 0, "")

Raw(t) == [pad |-> FALSE, txt |-> t]
Padded(t) == [pad |-> TRUE, txt |-> t]

\* line.erase(0, find_first_not_of(ws)); line.erase(find_last_not_of(ws) + 1)
Trim(line) == line.txt

\* std::isdigit(line[0]) || (line[0] == '-' && length > 1 && std::isdigit(line[1]))
IsGroupCodeLine(t) == t.k \in {"int", "real", "sci", "numword", "big"}

Abs(n) == IF n < 0 THEN -n ELSE n
Sign(n) == IF n < 0 THEN -1 ELSE 1

RECURSIVE LeadingDigit(_)
LeadingDigit(m) == IF m < 10 THEN m ELSE LeadingDigit(m \div 10)

\* std::stoi: the longest integer prefix; throws when there is none or when
\* the integer does not fit an int (a "big" text)
Stoi(t) ==
    CASE t.k \in {"int", "numword"} -> [ok |-> TRUE, val |-> t.n]
      [] t.k = "real" -> [ok |-> TRUE, val |-> Sign(t.n) * (Abs(t.n) \div 10)]
      [] t.k = "sci" -> [ok |-> TRUE, val |-> Sign(t.n) * LeadingDigit(Abs(t.n))]
      [] OTHER -> [ok |-> FALSE, val |-> 0]

\* std::stod, the result in tenths: the longest numeric prefix; throws when
\* there is none (of a "big" text, some value of at least INT_MAX)
Stod(t) ==
    CASE t.k \in {"int", "numword"} -> [ok |-> TRUE, val |-> 10 * t.n]
      [] t.k \in {"real", "sci"} -> [ok |-> TRUE, val |-> t.n]
      [] t.k = "big" -> [ok |-> TRUE, val |-> IntMax]
      [] OTHER -> [ok |-> FALSE, val |-> 0]

\* --------------------------------------------------------------- entities
EmptyMap == [c \in {} |-> Empty]

\* groupCodes[code] = value on a std::map<int, std::string>
MapPut(m, c, v) == [x \in (DOMAIN m) \cup {c} |-> IF x = c THEN v ELSE m[x]]

DxfEntity(entityType) ==
    [type |-> entityType, groupCodes |-> EmptyMap, layer |-> Empty, color |-> Empty]

\* ----------------------------------------------------------------- parser
\* content: the text parseDxfEntities reads, as its lines; pos: the next
\* line std::getline returns; pstat: "idle", "run", "done" (returned) or
\* "throw" (std::stoi's exception left the function)
VARIABLES content, pos, entities, currentEntity, currentLayer, pstat, pairs

parserVars == <<content, pos, entities, currentEntity, currentLayer, pstat, pairs>>

\* entry: the entry point the run calls; buffer: its argument; files: the
\* file system, file name -> content; pc: the place the call has reached;
\* result: "none" (running), "node", "nullopt" or "throw"; idx: the entity the
\* loop of convertFromDxf is at; built: the value of its local `shape` at the
\* end of each pass; compound: the shapes added to the compound; node: the
\* ShapeNode returned
VARIABLES entry, buffer, files, pc, result, idx, built, compound, node

convertVars == <<entry, buffer, files, pc, result, idx, built, compound, node>>

\* shapes: the argument of convertToDxf
VARIABLES shapes

\* document: the XCAF document the reader transferred (its labels), or <<>>;
\* frame: the running call of getLabelName / getLabelColor, one recursive
\* call at a time; verdict: the last answer of isMeshNode, <<label, answer>>
VARIABLES document, frame, verdict

docVars == <<document, frame, verdict>>

vars == <<parserVars, convertVars, shapes, docVars>>

\* no call of getLabelName / getLabelColor is running
NoFrame == [fn |-> "none", label |-> 0, cur |-> 0, steps |-> 0, status |-> "idle",
            found |-> FALSE, value |-> ""]

\* no document has been transferred and no label function called
DocIdle ==
    /\ document = <<>>
    /\ frame = NoFrame
    /\ verdict = <<>>

\* the locals of parseDxfEntities before its loop; currentEntity is a
\* nullable pointer: <<>> or <<entity>>; pairs records the (code, value)
\* pairs the loop has read
ParserInit ==
    [pos |-> 1, entities |-> <<>>, currentEntity |-> <<>>,
     currentLayer |-> IntTxt(0), pstat |-> "run", pairs |-> <<>>]

\* currentEntity->layer = currentLayer; entities.push_back(*currentEntity)
ClosedEntities(st) ==
    IF st.currentEntity # <<>>
    THEN Append(st.entities, [st.currentEntity[1] EXCEPT !.layer = st.currentLayer])
    ELSE st.entities

\* the body of `if (std::getline(stream, line))` for one (code, value) pair
ApplyPairMutNoCloseOnZero(st, groupCode, value) ==
    IF groupCode = 0
    THEN [st EXCEPT !.entities = IF st.currentEntity # <<>> /\ DOMAIN st.currentEntity[1].groupCodes # {}
                                 THEN ClosedEntities(st) ELSE st.entities,
                    !.currentEntity = <<DxfEntity(value)>>]
    ELSE IF st.currentEntity # <<>>
    THEN LET e == st.currentEntity[1]
             e1 == [e EXCEPT !.groupCodes = MapPut(e.groupCodes, groupCode, value)]
             e2 == IF groupCode = 62 THEN [e1 EXCEPT !.color = value] ELSE e1
         IN [st EXCEPT !.currentEntity = <<e2>>,
                       !.currentLayer = IF groupCode = 8 THEN value ELSE st.currentLayer]
    ELSE st

ApplyPairMutLayerPerEntity(st, groupCode, value) ==
    IF groupCode = 0
    THEN [st EXCEPT !.entities = ClosedEntities(st),
                    !.currentEntity = <<DxfEntity(value)>>,
                    !.currentLayer = IntTxt(0)]
    ELSE IF st.currentEntity # <<>>
    THEN LET e == st.currentEntity[1]
             e1 == [e EXCEPT !.groupCodes = MapPut(e.groupCodes, groupCode, value)]
             e2 == IF groupCode = 62 THEN [e1 EXCEPT !.color = value] ELSE e1
         IN [st EXCEPT !.currentEntity = <<e2>>,
                       !.currentLayer = IF groupCode = 8 THEN value ELSE st.currentLayer]
    ELSE st

ApplyPair(st, groupCode, value) ==
    IF groupCode = 0
    THEN [st EXCEPT !.entities = ClosedEntities(st),
                    !.currentEntity = <<DxfEntity(value)>>]
    ELSE IF st.currentEntity # <<>>
    THEN LET e == st.currentEntity[1]
             e1 == [e EXCEPT !.groupCodes = MapPut(e.groupCodes, groupCode, value)]
             e2 == IF groupCode = 62 THEN [e1 EXCEPT !.color = value] ELSE e1
         IN [st EXCEPT !.currentEntity = <<e2>>,
                       !.currentLayer = IF groupCode = 8 THEN value ELSE st.currentLayer]
    ELSE st

\* one iteration of `while (std::getline(stream, line))`, or, when the
\* stream is exhausted, the code after the loop
ParseStepMutBlankEndsStream(text, st) ==
    IF st.pos > Len(text) \/ Trim(text[st.pos]) = Empty
    THEN [st EXCEPT !.entities = ClosedEntities(st), !.currentEntity = <<>>,
                    !.pstat = "done"]
    ELSE LET line == Trim(text[st.pos]) IN
         IF ~IsGroupCodeLine(line) THEN [st EXCEPT !.pos = st.pos + 1]
         ELSE IF ~Stoi(line).ok THEN [st EXCEPT !.pstat = "throw"]
         ELSE IF st.pos + 1 > Len(text) THEN [st EXCEPT !.pos = st.pos + 2]
         ELSE LET value == Trim(text[st.pos + 1])
                  st1 == [st EXCEPT !.pos = st.pos + 2,
                                    !.pairs = Append(st.pairs, <<Stoi(line).val, value>>)]
              IN ApplyPair(st1, Stoi(line).val, value)

ParseStep(text, st) ==
    IF st.pos > Len(text)
    THEN [st EXCEPT !.entities = ClosedEntities(st), !.currentEntity = <<>>,
                    !.pstat = "done"]
    ELSE LET line == Trim(text[st.pos]) IN
         IF line = Empty THEN [st EXCEPT !.pos = st.pos + 1]
         ELSE IF ~IsGroupCodeLine(line) THEN [st EXCEPT !.pos = st.pos + 1]
         ELSE IF ~Stoi(line).ok THEN [st EXCEPT !.pstat = "throw"]
         ELSE IF st.pos + 1 > Len(text) THEN [st EXCEPT !.pos = st.pos + 2]
         ELSE LET value == Trim(text[st.pos + 1])
                  st1 == [st EXCEPT !.pos = st.pos + 2,
                                    !.pairs = Append(st.pairs, <<Stoi(line).val, value>>)]
              IN ApplyPair(st1, Stoi(line).val, value)

RECURSIVE ParseRun(_, _)
ParseRun(text, st) ==
    IF st.pstat # "run" THEN st ELSE ParseRun(text, ParseStep(text, st))

\* the whole call: its final parser state (pstat "done": `entities` is the
\* returned vector; "throw": std::stoi's exception left the function)
parseDxfEntities(text) == ParseRun(text, ParserInit)

PState ==
    [pos |-> pos, entities |-> entities, currentEntity |-> currentEntity,
     currentLayer |-> currentLayer, pstat |-> pstat, pairs |-> pairs]

SetPState(st) ==
    /\ pos' = st.pos
    /\ entities' = st.entities
    /\ currentEntity' = st.currentEntity
    /\ currentLayer' = st.currentLayer
    /\ pstat' = st.pstat
    /\ pairs' = st.pairs

\* the conversion entry points are not running
ConvertIdle(e) ==
    /\ entry = e
    /\ buffer = <<>>
    /\ files = EmptyMap
    /\ pc = "idle"
    /\ result = "none"
    /\ idx = 1
    /\ built = <<>>
    /\ compound = <<>>
    /\ node = <<>>
    /\ shapes = <<>>
    /\ DocIdle

\* ------------------------------------------- specification of the parser
\* the lines a stream is drawn from: "0", "  8", "5.0", "LINE" and ""
ParseAlphabet ==
    {Raw(IntTxt(0)), Padded(IntTxt(8)), Raw(RealTxt(50)), Raw(Word("LINE")), Raw(Empty)}

RECURSIVE SeqsUpTo(_, _)
SeqsUpTo(S, n) ==
    IF n = 0 THEN {<<>>}
    ELSE LET shorter == SeqsUpTo(S, n - 1)
         IN shorter \cup {Append(s, x) : s \in {t \in shorter : Len(t) = n - 1}, x \in S}

InitParse ==
    /\ content \in SeqsUpTo(ParseAlphabet, MaxLines)
    /\ pos = ParserInit.pos
    /\ entities = ParserInit.entities
    /\ currentEntity = ParserInit.currentEntity
    /\ currentLayer = ParserInit.currentLayer
    /\ pstat = ParserInit.pstat
    /\ pairs = ParserInit.pairs
    /\ ConvertIdle("parse")

\* one pass of the loop of parseDxfEntities
ParseLine ==
    /\ pstat = "run"
    /\ pos <= Len(content)
    /\ SetPState(ParseStep(content, PState))
    /\ UNCHANGED <<content, convertVars, shapes, docVars>>

\* std::getline fails: the entity still open is appended and the vector returned
ParseEnd ==
    /\ pstat = "run"
    /\ pos > Len(content)
    /\ SetPState(ParseStep(content, PState))
    /\ UNCHANGED <<content, convertVars, shapes, docVars>>

NextParse == ParseLine \/ ParseEnd

SpecParse == InitParse /\ [][NextParse]_vars

\* ---------------------------------------------------- claims on the parser
TypesOf(es) == [i \in 1..Len(es) |-> es[i].type]
IsZeroPair(p) == p[1] = 0
ZeroValues(ps) == LET zs == SelectSeq(ps, IsZeroPair) IN [i \in 1..Len(zs) |-> zs[i][2]]

\* a stream made of (group code, value) line pairs only
PairedStream(text) ==
    /\ Len(text) % 2 = 0
    /\ \A k \in 1..(Len(text) \div 2) : IsGroupCodeLine(Trim(text[2 * k - 1]))
PairsByPosition(text) ==
    [k \in 1..(Len(text) \div 2) |-> <<Stoi(Trim(text[2 * k - 1])).val, Trim(text[2 * k])>>]

\* C1: every code-0 pair closes the open entity and opens one of the paired
\* type, so the types of the closed entities followed by the open one are, in
\* order, the values paired with code 0 so far; at the return nothing is left
\* open, and of a stream of pairs the pairs read are the pairs of the stream.
C1_TypesAreCodeZeroValues ==
    /\ TypesOf(entities \o currentEntity) = ZeroValues(pairs)
    /\ pstat = "done" =>
          /\ currentEntity = <<>>
          /\ PairedStream(content) => pairs = PairsByPosition(content)

C1_Witness ==
    /\ pstat = "done"
    /\ Len(entities) >= 2
    /\ \E i \in 1..(Len(pairs) - 1) : pairs[i][1] = 0 /\ pairs[i + 1][1] = 0
    /\ \E i \in 1..Len(pairs) : pairs[i][1] # 0

ZeroIdx(ps) == {j \in 1..Len(ps) : ps[j][1] = 0}
\* the index in ps of the pair that closed the i-th entity: the (i+1)-th
\* code-0 pair, or one past the end when the end of the stream closed it
CloseIdx(ps, i) ==
    IF Cardinality(ZeroIdx(ps)) >= i + 1
    THEN CHOOSE j \in ZeroIdx(ps) : Cardinality({x \in ZeroIdx(ps) : x <= j}) = i + 1
    ELSE Len(ps) + 1
\* the value of the last code-8 pair before index c that was read while an
\* entity was open (after the first code-0 pair), "0" when there is none
LayerBefore(ps, c) ==
    LET open == {j \in 1..(c - 1) : ps[j][1] = 8 /\ \E z \in ZeroIdx(ps) : z < j}
    IN IF open = {} THEN IntTxt(0)
       ELSE ps[CHOOSE j \in open : \A x \in open : x <= j][2]

\* C2: the layer of every returned entity is the value of the most recent
\* code-8 pair read while an entity was open, as it stood when the entity
\* was closed, and "0" when no such pair was read.
C2_LayerIsLastCode8AtClose ==
    \A i \in 1..Len(entities) :
        entities[i].layer = LayerBefore(pairs, CloseIdx(pairs, i))

C2_Witness ==
    /\ pstat = "done"
    /\ \E i \in 1..Len(entities) :
          /\ 8 \notin DOMAIN entities[i].groupCodes
          /\ entities[i].layer # IntTxt(0)

InsertAt(text, p, line) ==
    [i \in 1..(Len(text) + 1) |->
        IF i < p THEN text[i] ELSE IF i = p THEN line ELSE text[i - 1]]
BlankLines == {Raw(Empty), Padded(Empty)}

\* the positions at which the loop of parseDxfEntities reads a group-code
\* line (the line after a group-code line is read as its value)
RECURSIVE CodePositions(_, _)
CodePositions(text, p) ==
    IF p > Len(text) THEN {p}
    ELSE {p} \cup (IF IsGroupCodeLine(Trim(text[p]))
                   THEN CodePositions(text, p + 2)
                   ELSE CodePositions(text, p + 1))

\* C3 as claimed: a blank line inserted at any position of the stream, also
\* between a group-code line and its value line, leaves the result unchanged.
C3_BlankAnywhereIsSkipped ==
    pstat = "done" =>
        \A p \in 1..(Len(content) + 1) : \A b \in BlankLines :
            parseDxfEntities(InsertAt(content, p, b)).entities = entities

\* C3 amended: a blank line inserted where the parser reads a group-code
\* line leaves the result unchanged.
C3_BlankAtCodePositionIsSkipped ==
    pstat = "done" =>
        \A p \in CodePositions(content, 1) \cap 1..(Len(content) + 1) :
            \A b \in BlankLines :
                parseDxfEntities(InsertAt(content, p, b)).entities = entities

C3_Witness ==
    /\ pstat = "done"
    /\ Len(entities) >= 2
    /\ \E p \in CodePositions(content, 1) \cap 2..Len(content) :
          Trim(content[p]) = Empty

\* --------------------------------------------------------------- geometry
\* Shapes of the kernel, as far as the code distinguishes them.  Points are
\* <<x, y, z>> in tenths; angles are counted in tenths of a degree.
NullShape == [kind |-> "null"]
Pnt(x, y, z) == <<x, y, z>>
\* BRepBuilderAPI_MakeEdge(p1, p2)
LineEdge(p1, p2) == [kind |-> "edge", curve |-> "line", p1 |-> p1, p2 |-> p2]
\* BRepBuilderAPI_MakeEdge(new Geom_Circle(gp_Ax2(center, normal), radius), first, last)
CircleEdge(center, normal, radius, first, last) ==
    [kind |-> "edge", curve |-> "circle", center |-> center, normal |-> normal,
     radius |-> radius, first |-> first, last |-> last]
\* BRepBuilderAPI_MakeWire with the edges added in order
Wire(edges) == [kind |-> "wire", edges |-> edges]
\* BRepBuilderAPI_MakeFace(wire)
Face(wire) == [kind |-> "face", wire |-> wire]

Returns(shape) == [ok |-> TRUE, shape |-> shape]
Throws == [ok |-> FALSE, shape |-> NullShape]

Has(e, c) == c \in DOMAIN e.groupCodes
Min(a, b) == IF a < b THEN a ELSE b
\* n & bit, for bit a power of two
BitSet(n, bit) == (n \div bit) % 2 = 1

createLineFromDxfMutNoEndCheck(entity) ==
    IF Has(entity, 10) /\ Has(entity, 20) /\ Has(entity, 11)
    THEN LET x1 == Stod(entity.groupCodes[10])
             y1 == Stod(entity.groupCodes[20])
             x2 == Stod(entity.groupCodes[11])
             y2 == IF Has(entity, 21) THEN Stod(entity.groupCodes[21])
                   ELSE [ok |-> TRUE, val |-> 0]
         IN IF x1.ok /\ y1.ok /\ x2.ok /\ y2.ok
            THEN Returns(LineEdge(Pnt(x1.val, y1.val, 0), Pnt(x2.val, y2.val, 0)))
            ELSE Throws
    ELSE Returns(NullShape)

createLineFromDxf(entity) ==
    IF Has(entity, 10) /\ Has(entity, 20) /\ Has(entity, 11) /\ Has(entity, 21)
    THEN LET x1 == Stod(entity.groupCodes[10])
             y1 == Stod(entity.groupCodes[20])
             x2 == Stod(entity.groupCodes[11])
             y2 == Stod(entity.groupCodes[21])
         IN IF x1.ok /\ y1.ok /\ x2.ok /\ y2.ok
            THEN Returns(LineEdge(Pnt(x1.val, y1.val, 0), Pnt(x2.val, y2.val, 0)))
            ELSE Throws
    ELSE Returns(NullShape)

createCircleFromDxf(entity) ==
    IF Has(entity, 10) /\ Has(entity, 20) /\ Has(entity, 40)
    THEN LET centerX == Stod(entity.groupCodes[10])
             centerY == Stod(entity.groupCodes[20])
             radius == Stod(entity.groupCodes[40])
         IN IF centerX.ok /\ centerY.ok /\ radius.ok
            THEN Returns(CircleEdge(Pnt(centerX.val, centerY.val, 0), Pnt(0, 0, 1),
                                    radius.val, 0, 3600))
            ELSE Throws
    ELSE Returns(NullShape)

createArcFromDxf(entity) ==
    IF Has(entity, 10) /\ Has(entity, 20) /\ Has(entity, 40)
       /\ Has(entity, 50) /\ Has(entity, 51)
    THEN LET centerX == Stod(entity.groupCodes[10])
             centerY == Stod(entity.groupCodes[20])
             radius == Stod(entity.groupCodes[40])
             startAngle == Stod(entity.groupCodes[50])
             endAngle == Stod(entity.groupCodes[51])
         IN IF centerX.ok /\ centerY.ok /\ radius.ok /\ startAngle.ok /\ endAngle.ok
            THEN Returns(CircleEdge(Pnt(centerX.val, centerY.val, 0), Pnt(0, 0, 1),
                                    radius.val, startAngle.val, endAngle.val))
            ELSE Throws
    ELSE Returns(NullShape)

\* the values the loop `for (const auto& pair : entity.groupCodes)` finds for
\* one code: a std::map holds one pair per key
ValuesOfCode(entity, c) == IF Has(entity, c) THEN <<entity.groupCodes[c]>> ELSE <<>>

\* the edges between consecutive points, and the closing one
ChainEdges(points, closed) ==
    [i \in 1..(Len(points) - 1) |-> LineEdge(points[i], points[i + 1])]
    \o (IF closed THEN <<LineEdge(points[Len(points)], points[1])>> ELSE <<>>)

createPolylineFromDxf(entity) ==
    LET flagsRead == entity.type = Word("POLYLINE") /\ Has(entity, 70)
        xTexts == ValuesOfCode(entity, 10)
        yTexts == ValuesOfCode(entity, 20)
        zTexts == ValuesOfCode(entity, 30)
        allOk(ts) == \A i \in 1..Len(ts) : Stoi(ts[i]).ok
    IN IF flagsRead /\ ~Stoi(entity.groupCodes[70]).ok THEN Throws
       ELSE IF ~(allOk(xTexts) /\ allOk(yTexts) /\ allOk(zTexts)) THEN Throws
       ELSE
       LET is3D == flagsRead /\ BitSet(Stoi(entity.groupCodes[70]).val, 8)
           xCodes == [i \in 1..Len(xTexts) |-> Stoi(xTexts[i]).val]
           yCodes == [i \in 1..Len(yTexts) |-> Stoi(yTexts[i]).val]
           zCodes == [i \in 1..Len(zTexts) |-> Stoi(zTexts[i]).val]
           numPoints == Min(Len(xCodes), Min(Len(yCodes), Len(zCodes)))
           points == IF is3D
                     THEN [i \in 1..numPoints |->
                              Pnt(10 * xCodes[i], 10 * yCodes[i], 10 * zCodes[i])]
                     ELSE [i \in 1..Min(Len(xCodes), Len(yCodes)) |->
                              Pnt(10 * xCodes[i], 10 * yCodes[i], 0)]
           closedRead == entity.type = Word("LWPOLYLINE") /\ Len(points) > 2
                         /\ Has(entity, 70)
       IN IF Len(points) >= 2
          THEN IF closedRead /\ ~Stoi(entity.groupCodes[70]).ok THEN Throws
               ELSE Returns(Wire(ChainEdges(points,
                        closedRead /\ BitSet(Stoi(entity.groupCodes[70]).val, 1))))
          ELSE Returns(NullShape)

\* the corners i in 0..3 whose codes 10+i, 20+i and 30+i are all present
CornerSeq(entity) ==
    LET present(i) == Has(entity, 10 + i) /\ Has(entity, 20 + i) /\ Has(entity, 30 + i)
        isPresent(i) == present(i)
    IN SelectSeq(<<0, 1, 2, 3>>, isPresent)

create3DFaceFromDxfMutQuadForAll(entity) ==
    LET corners == CornerSeq(entity)
        num(c) == Stod(entity.groupCodes[c])
    IN IF \E j \in 1..Len(corners) :
            ~(num(10 + corners[j]).ok /\ num(20 + corners[j]).ok /\ num(30 + corners[j]).ok)
       THEN Throws
       ELSE LET points == [j \in 1..Len(corners) |->
                             Pnt(num(10 + corners[j]).val, num(20 + corners[j]).val,
                                 num(30 + corners[j]).val)]
            IN IF Len(points) >= 3
               THEN Returns(Face(Wire(ChainEdges(points, TRUE))))
               ELSE Returns(NullShape)

create3DFaceFromDxf(entity) ==
    LET corners == CornerSeq(entity)
        num(c) == Stod(entity.groupCodes[c])
    IN IF \E j \in 1..Len(corners) :
            ~(num(10 + corners[j]).ok /\ num(20 + corners[j]).ok /\ num(30 + corners[j]).ok)
       THEN Throws
       ELSE LET points == [j \in 1..Len(corners) |->
                             Pnt(num(10 + corners[j]).val, num(20 + corners[j]).val,
                                 num(30 + corners[j]).val)]
            IN IF Len(points) = 3
               THEN Returns(Face(Wire(ChainEdges(points, FALSE))))
               ELSE IF Len(points) = 4
               THEN Returns(Face(Wire(ChainEdges(points, TRUE))))
               ELSE Returns(NullShape)

\* the dispatch on entity.type in the loop of convertFromDxf
BuildShape(entity) ==
    CASE entity.type = Word("LINE") -> createLineFromDxf(entity)
      [] entity.type = Word("CIRCLE") -> createCircleFromDxf(entity)
      [] entity.type = Word("ARC") -> createArcFromDxf(entity)
      [] entity.type \in {Word("POLYLINE"), Word("LWPOLYLINE")} ->
             createPolylineFromDxf(entity)
      [] entity.type = NumWord(3, "3DFACE") -> create3DFaceFromDxf(entity)
      [] OTHER -> Returns(NullShape)

\* ---------------------------------------------------- document and labels
\* A document is a function from its labels 0 .. n to what the kernel
\* answers about each: label 0 is shapeTool->Label(); father: the label it is
\* a child of (TDF_ChildIterator visits the children in ascending tag
\* order); name: the TDataStd_Name attribute, <<>> or <<text>>; color: for
\* each color type the color set on the label, <<>> or <<hex>>; ref: the label
\* GetReferredShape gives, <<>> when IsReference is false; shape: the shape
\* GetShape gives, <<>> when it gives none; free: IsFree; sub: IsSubShape.
MaxLabels == 2
MaxRefs == 3

\* the recursion depth the stack allows: more frames than an acyclic chain
\* of the documents below has labels
MaxDepth == MaxRefs + 2

\* static const std::vector<XCAFDoc_ColorType> colorTypes
colorTypes == <<"ColorSurf", "ColorCurv", "ColorGen">>

NoColor == [t \in {"ColorSurf", "ColorCurv", "ColorGen"} |-> <<>>]

Label(father, name, color, ref, shape, free, sub) ==
    [father |-> father, name |-> name, color |-> color, ref |-> ref,
     shape |-> shape, free |-> free, sub |-> sub]

\* a TopoDS_Shape of the document: its ShapeType, the identity of its TShape
\* and the shapes TopoDS_Iterator visits, in order
KernelShape(type, id, parts) == [type |-> type, id |-> id, parts |-> parts]

LabelsOf(doc) == DOMAIN doc

\* XCAFDoc_ShapeTool::IsReference(label)
IsReference(doc, label) == doc[label].ref # <<>>

\* shapeTool->GetReferredShape(label, referredShapeLabel)
GetReferredShape(doc, label) == doc[label].ref[1]

\* getLabelNameNoRef
getLabelNameNoRef(doc, label) ==
    IF doc[label].name = <<>> THEN "" ELSE doc[label].name[1]

\* getLabelColorNoRef: the first color type, from position i on, that is set
RECURSIVE ColorFrom(_, _, _)
ColorFrom(doc, label, i) ==
    IF i > Len(colorTypes) THEN [found |-> FALSE, color |-> ""]
    ELSE IF doc[label].color[colorTypes[i]] # <<>>
         THEN [found |-> TRUE, color |-> doc[label].color[colorTypes[i]][1]]
         ELSE ColorFrom(doc, label, i + 1)

getLabelColorNoRef(doc, label) == ColorFrom(doc, label, 1)

\* the call getLabelName(label) / getLabelColor(label) as it starts
StartFrame(fn, label) ==
    [fn |-> fn, label |-> label, cur |-> label, steps |-> 0, status |-> "run",
     found |-> FALSE, value |-> ""]

\* the recursive call on the referred-to label; the stack is exhausted when
\* the chain does not end
Recurse(doc, f) ==
    IF f.steps >= MaxDepth
    THEN [f EXCEPT !.status = "overflow"]
    ELSE [f EXCEPT !.cur = GetReferredShape(doc, f.cur), !.steps = f.steps + 1]

\* mutants of getLabelName: the own name is looked at before the reference;
\* the recursive call is made on the label itself
getLabelNameStepMutSameLabel(doc, f) ==
    IF IsReference(doc, f.cur)
    THEN IF f.steps >= MaxDepth
         THEN [f EXCEPT !.status = "overflow"]
         ELSE [f EXCEPT !.steps = f.steps + 1]
    ELSE [f EXCEPT !.status = "done", !.value = getLabelNameNoRef(doc, f.cur)]

getLabelNameStepMutOwnFirst(doc, f) ==
    IF doc[f.cur].name # <<>>
    THEN [f EXCEPT !.status = "done", !.value = getLabelNameNoRef(doc, f.cur)]
    ELSE IF IsReference(doc, f.cur)
         THEN Recurse(doc, f)
         ELSE [f EXCEPT !.status = "done", !.value = ""]

\* one call of getLabelName on f.cur
getLabelNameStep(doc, f) ==
    IF IsReference(doc, f.cur)
    THEN Recurse(doc, f)
    ELSE [f EXCEPT !.status = "done", !.value = getLabelNameNoRef(doc, f.cur)]

\* one call of getLabelColor on f.cur
getLabelColorStep(doc, f) ==
    IF getLabelColorNoRef(doc, f.cur).found
    THEN [f EXCEPT !.status = "done", !.found = TRUE,
                   !.value = getLabelColorNoRef(doc, f.cur).color]
    ELSE IF IsReference(doc, f.cur)
         THEN Recurse(doc, f)
         ELSE [f EXCEPT !.status = "done", !.found = FALSE]

ResolveStep(doc, f) ==
    IF f.fn = "name" THEN getLabelNameStep(doc, f) ELSE getLabelColorStep(doc, f)

\* the call run to its return
RECURSIVE ResolveRun(_, _)
ResolveRun(doc, f) ==
    IF f.status # "run" THEN f ELSE ResolveRun(doc, ResolveStep(doc, f))

getLabelName(doc, label) == ResolveRun(doc, StartFrame("name", label)).value

getLabelColor(doc, label) ==
    [found |-> ResolveRun(doc, StartFrame("color", label)).found,
     color |-> ResolveRun(doc, StartFrame("color", label)).value]

\* shapeTool->Search(shape, shapeLabel): the labels that hold the shape
Search(doc, shape) == {l \in LabelsOf(doc) : doc[l].shape = <<shape>>}

FirstOf(S) == CHOOSE l \in S : \A k \in S : l <= k

getShapeName(doc, shape) ==
    IF Search(doc, shape) = {} THEN ""
    ELSE getLabelName(doc, FirstOf(Search(doc, shape)))

getShapeColor(doc, shape) ==
    IF Search(doc, shape) = {} THEN [found |-> FALSE, color |-> ""]
    ELSE getLabelColor(doc, FirstOf(Search(doc, shape)))

\* TDF_ChildIterator it(label): the children from tag i on
RECURSIVE ChildrenFrom(_, _, _)
ChildrenFrom(doc, label, i) ==
    IF i \notin LabelsOf(doc) THEN <<>>
    ELSE IF doc[i].father = label
         THEN <<i>> \o ChildrenFrom(doc, label, i + 1)
         ELSE ChildrenFrom(doc, label, i + 1)

Children(doc, label) == ChildrenFrom(doc, label, 1)

\* label.HasChild()
HasChild(doc, label) == Children(doc, label) # <<>>

IsSubShape(doc, label) == doc[label].sub

isFreeShape(doc, label) == doc[label].shape # <<>> /\ doc[label].free

\* the loops of isMeshNode: some child from position i on is a sub-shape /
\* is a free shape
RECURSIVE HasSubShapeChildFrom(_, _, _)
HasSubShapeChildFrom(doc, chs, i) ==
    IF i > Len(chs) THEN FALSE
    ELSE IF IsSubShape(doc, chs[i]) THEN TRUE
         ELSE HasSubShapeChildFrom(doc, chs, i + 1)

RECURSIVE HasFreeShapeChildFrom(_, _, _)
HasFreeShapeChildFrom(doc, chs, i) ==
    IF i > Len(chs) THEN FALSE
    ELSE IF isFreeShape(doc, chs[i]) THEN TRUE
         ELSE HasFreeShapeChildFrom(doc, chs, i + 1)

\* the mutant of isMeshNode: the free-shape test is made before the
\* sub-shape test
isMeshNodeMutFreeBeforeSub(doc, label) ==
    IF ~HasChild(doc, label) THEN TRUE
    ELSE IF HasFreeShapeChildFrom(doc, Children(doc, label), 1) THEN FALSE
         ELSE TRUE

isMeshNode(doc, label) ==
    IF ~HasChild(doc, label) THEN TRUE
    ELSE IF HasSubShapeChildFrom(doc, Children(doc, label), 1) THEN TRUE
         ELSE IF ~HasFreeShapeChildFrom(doc, Children(doc, label), 1) THEN TRUE
              ELSE FALSE

\* ShapeNode; its optional shape when it holds none
NullOpt == [kind |-> "nullopt"]

ShapeNode(shape, color, children, name) ==
    [shape |-> shape, color |-> color, children |-> children, name |-> name]

initLabelNode(doc, label) ==
    ShapeNode(NullOpt, getLabelColor(doc, label).color, <<>>,
              <<getLabelName(doc, label)>>)

initShapeNode(doc, shape) ==
    ShapeNode(shape, getShapeColor(doc, shape).color, <<>>, <<getShapeName(doc, shape)>>)

initGroupNode(doc, shape) ==
    ShapeNode(NullOpt, "nullopt", <<>>, <<getShapeName(doc, shape)>>)

RECURSIVE parseShape(_, _)
parseShape(doc, shape) ==
    IF shape.type = "COMPOUND" \/ shape.type = "COMPSOLID"
    THEN [initGroupNode(doc, shape) EXCEPT
             !.children = [i \in 1 .. Len(shape.parts) |-> parseShape(doc, shape.parts[i])]]
    ELSE initShapeNode(doc, shape)

\* the loop of parseLabelToNode / parseRootLabelToNode over the children
\* from position i on
RECURSIVE parseLabelToNode(_, _), FreeChildNodesMutAllChildren(_, _, _), FreeChildNodes(_, _, _)
FreeChildNodesMutAllChildren(doc, chs, i) ==
    IF i > Len(chs) THEN <<>>
    ELSE IF doc[chs[i]].shape # <<>>
         THEN <<parseLabelToNode(doc, chs[i])>> \o FreeChildNodes(doc, chs, i + 1)
         ELSE FreeChildNodes(doc, chs, i + 1)

FreeChildNodes(doc, chs, i) ==
    IF i > Len(chs) THEN <<>>
    ELSE IF isFreeShape(doc, chs[i])
         THEN <<parseLabelToNode(doc, chs[i])>> \o FreeChildNodes(doc, chs, i + 1)
         ELSE FreeChildNodes(doc, chs, i + 1)

parseLabelToNode(doc, label) ==
    IF isMeshNode(doc, label)
    THEN parseShape(doc, doc[label].shape[1])
    ELSE [initLabelNode(doc, label) EXCEPT
             !.children = FreeChildNodes(doc, Children(doc, label), 1)]

parseRootLabelToNode(doc) ==
    [initLabelNode(doc, 0) EXCEPT !.children = FreeChildNodes(doc, Children(doc, 0), 1)]

parseNodeFromDocument(doc) == parseRootLabelToNode(doc)

\* ------------------------------------------------------------- documents
Names == <<"L1", "L2", "L3", "L4", "L5">>
SurfHex == <<"#FF0001", "#FF0002", "#FF0003", "#FF0004", "#FF0005">>
CurvHex == <<"#00FF01", "#00FF02", "#00FF03", "#00FF04", "#00FF05">>
GenHex == <<"#0000F1", "#0000F2", "#0000F3", "#0000F4", "#0000F5">>

RootLabel == Label(0, <<"Shapes">>, NoColor, <<>>, <<>>, FALSE, FALSE)

Solid(i) == KernelShape("SOLID", i, <<>>)

\* the shapes label i may hold: none, a solid, a compound of the solid of the
\* next label and a solid no label holds, a composite solid that holds an
\* empty compound and a solid
ShapeOptions(i) ==
    {<<>>,
     <<Solid(i)>>,
     <<KernelShape("COMPOUND", i, <<Solid(i + 1), Solid(10 + i)>>)>>,
     <<KernelShape("COMPSOLID", i, <<KernelShape("COMPOUND", 20 + i, <<>>), Solid(20 + i)>>)>>}

\* documents with a tree of labels: every label below the root has a name
\* and is a child of a label of a lower tag; IsFree is asked of a label only
\* after GetShape gave a shape
TreeLabels(i) ==
    {Label(f, <<Names[i]>>, NoColor, <<>>, sh, free, sub) :
        f \in 0 .. i - 1, sh \in ShapeOptions(i) \ {<<>>}, free \in BOOLEAN, sub \in BOOLEAN}
    \cup {Label(f, <<Names[i]>>, NoColor, <<>>, <<>>, FALSE, sub) :
             f \in 0 .. i - 1, sub \in BOOLEAN}

RECURSIVE TreeDocumentsUpTo(_)
TreeDocumentsUpTo(n) ==
    IF n = 0 THEN {0 :> RootLabel}
    ELSE {d @@ (n :> l) : d \in TreeDocumentsUpTo(n - 1), l \in TreeLabels(n)}

TreeDocuments == TreeDocumentsUpTo(MaxLabels)

\* the colors label i may carry: none, a surface color, a curve and a
\* generic color
ColorOptions(i) ==
    {NoColor,
     [NoColor EXCEPT !["ColorSurf"] = <<SurfHex[i]>>],
     [NoColor EXCEPT !["ColorCurv"] = <<CurvHex[i]>>, !["ColorGen"] = <<GenHex[i]>>]}

\* documents with references: a label refers to none, to itself (a cycle)
\* or to a label of a higher tag; in a document the labels carry names of
\* their own (named) or colors of their own
RefLabels(i, named) ==
    {Label(0, nm, col, ref, <<>>, FALSE, FALSE) :
        nm \in IF named THEN {<<>>, <<Names[i]>>} ELSE {<<>>},
        col \in IF named THEN {NoColor} ELSE ColorOptions(i),
        ref \in {<<>>} \cup {<<j>> : j \in i .. MaxRefs}}

RECURSIVE RefDocumentsUpTo(_, _)
RefDocumentsUpTo(n, named) ==
    IF n = 0 THEN {0 :> RootLabel}
    ELSE {d @@ (n :> l) : d \in RefDocumentsUpTo(n - 1, named), l \in RefLabels(n, named)}

RefDocuments == RefDocumentsUpTo(MaxRefs, TRUE) \cup RefDocumentsUpTo(MaxRefs, FALSE)

Documents == TreeDocuments \cup RefDocuments

\* ------------------------------------------------ conversion entry points
MaxEntities == 2
MaxVerts == 3

\* std::string dummyFileName = "temp.igs" / "temp.stl" / "temp.dxf"
DummyFileName(e) ==
    CASE e = "iges" -> "temp.igs"
      [] e = "stl" -> "temp.stl"
      [] OTHER -> "temp.dxf"

\* std::remove(dummyFileName.c_str())
Removed(fs, name) == [n \in (DOMAIN fs) \ {name} |-> fs[n]]

\* "DXF Import (" + std::to_string(entities.size()) + " entities)"
DxfNode(added, count) ==
    [shape |-> [kind |-> "compound", shapes |-> added], color |-> "nullopt",
     children |-> <<>>, name |-> <<"DXF Import (", count, " entities)">>]
StlNode == [shape |-> [kind |-> "stl"], color |-> "nullopt", children |-> <<>>,
            name |-> <<"STL Shape">>]
\* parseNodeFromDocument(document)
DocumentNode(doc) == parseNodeFromDocument(doc)

\* writeBufferToFile: the file is created with the buffer as its content, or,
\* when the stream cannot be opened, nothing is written
WriteBufferToFile ==
    /\ pc = "start"
    /\ \E opened \in BOOLEAN :
          files' = IF opened THEN MapPut(files, DummyFileName(entry), buffer) ELSE files
    /\ pc' = "staged"
    /\ UNCHANGED <<parserVars, entry, buffer, result, idx, built, compound, node, shapes, docVars>>

\* convertFromIges: igesCafReader.ReadFile
IgesReadFile ==
    /\ entry = "iges" /\ pc = "staged"
    /\ \E done \in BOOLEAN :
          /\ DummyFileName(entry) \notin DOMAIN files => ~done
          /\ IF done
             THEN /\ pc' = "read"
                  /\ UNCHANGED <<files, result>>
             ELSE /\ files' = Removed(files, DummyFileName(entry))
                  /\ result' = "nullopt"
                  /\ pc' = "returned"
    /\ UNCHANGED <<parserVars, entry, buffer, idx, built, compound, node, shapes, docVars>>

\* convertFromIges: igesCafReader.Transfer and the return
IgesTransfer ==
    /\ entry = "iges" /\ pc = "read"
    /\ files' = Removed(files, DummyFileName(entry))
    /\ \E transferred \in BOOLEAN :
          IF transferred
          THEN /\ document' \in TreeDocuments
               /\ result' = "node"
               /\ node' = DocumentNode(document')
          ELSE /\ result' = "nullopt"
               /\ UNCHANGED <<node, document>>
    /\ pc' = "returned"
    /\ UNCHANGED <<parserVars, entry, buffer, idx, built, compound, shapes, frame, verdict>>

\* convertFromStl: stlReader.Read and the return
StlRead ==
    /\ entry = "stl" /\ pc = "staged"
    /\ \E read \in BOOLEAN :
          /\ DummyFileName(entry) \notin DOMAIN files => ~read
          /\ IF read
             THEN result' = "node" /\ node' = StlNode
             ELSE result' = "nullopt" /\ UNCHANGED node
    /\ pc' = "returned"
    /\ UNCHANGED <<parserVars, entry, buffer, files, idx, built, compound, shapes, docVars>>

\* convertFromDxf: open the file, read it whole, close and remove it
DxfOpenFile ==
    /\ entry = "dxf" /\ pc = "staged"
    /\ files' = Removed(files, DummyFileName(entry))
    /\ IF DummyFileName(entry) \in DOMAIN files
       THEN /\ content' = files[DummyFileName(entry)]
            /\ pc' = "parse"
            /\ UNCHANGED result
       ELSE /\ result' = "nullopt"
            /\ pc' = "returned"
            /\ UNCHANGED content
    /\ UNCHANGED <<pos, entities, currentEntity, currentLayer, pstat, pairs,
                   entry, buffer, idx, built, compound, node, shapes, docVars>>

\* convertFromDxf: std::vector<DxfEntity> entities = parseDxfEntities(content)
DxfParse ==
    /\ entry = "dxf" /\ pc = "parse"
    /\ LET st == parseDxfEntities(content)
       IN /\ SetPState(st)
          /\ IF st.pstat = "throw"
             THEN result' = "throw" /\ pc' = "returned"
             ELSE result' = result /\ pc' = "build"
    /\ UNCHANGED <<content, entry, buffer, files, idx, built, compound, node, shapes, docVars>>

\* convertFromDxf: one pass of `for (const auto& entity : entities)`
DxfBuildEntity ==
    /\ entry = "dxf" /\ pc = "build"
    /\ idx <= Len(entities)
    /\ LET r == BuildShape(entities[idx])
       IN IF r.ok
          THEN /\ built' = Append(built, r.shape)
               /\ compound' = IF r.shape # NullShape THEN Append(compound, r.shape)
                              ELSE compound
               /\ idx' = idx + 1
               /\ UNCHANGED <<pc, result>>
          ELSE /\ result' = "throw"
               /\ pc' = "returned"
               /\ UNCHANGED <<built, compound, idx>>
    /\ UNCHANGED <<parserVars, entry, buffer, files, node, shapes, docVars>>

\* convertFromDxf: the node for the compound is returned
DxfReturn ==
    /\ entry = "dxf" /\ pc = "build"
    /\ idx > Len(entities)
    /\ node' = DxfNode(compound, Len(entities))
    /\ result' = "node"
    /\ pc' = "returned"
    /\ UNCHANGED <<parserVars, entry, buffer, files, idx, built, compound, shapes, docVars>>

\* ------------------------------------------------------------ DXF inputs
\* the lines of one record: "  0", the type, and a padded code line and a
\* value line per pair
RECURSIVE PairLines(_)
PairLines(kv) ==
    IF kv = <<>> THEN <<>>
    ELSE <<Padded(IntTxt(kv[1][1])), Raw(kv[1][2])>> \o PairLines(Tail(kv))
Record(type, kv) == <<Padded(IntTxt(0)), Raw(type)>> \o PairLines(kv)

Garbage == Word("abc")
\* the pairs of the codes of `order` that are in S, the value of code `bad`
\* replaced by text that is no number
PairsOf(order, S, value, bad) ==
    LET inS(c) == c \in S
        cs == SelectSeq(order, inS)
    IN [i \in 1..Len(cs) |-> <<cs[i], IF cs[i] = bad THEN Garbage ELSE value[cs[i]]>>]

LineValue == (10 :> RealTxt(0)) @@ (20 :> RealTxt(0)) @@ (11 :> RealTxt(50)) @@ (21 :> RealTxt(0))
LineRecords ==
    {Record(Word("LINE"), PairsOf(<<10, 20, 11, 21>>, S, LineValue, bad)) :
        S \in SUBSET {10, 20, 11, 21}, bad \in {0, 10, 21}}
\* the text "0, LINE, 8, 0, 10, 0.0, 20, 0.0, 11, 5.0, 21, 0.0", one item per line
ExampleLine ==
    <<Raw(IntTxt(0)), Raw(Word("LINE")), Padded(IntTxt(8)), Raw(IntTxt(0)),
      Padded(IntTxt(10)), Raw(RealTxt(0)), Padded(IntTxt(20)), Raw(RealTxt(0)),
      Padded(IntTxt(11)), Raw(RealTxt(50)), Padded(IntTxt(21)), Raw(RealTxt(0))>>

CircleValue == (10 :> RealTxt(15)) @@ (20 :> IntTxt(2)) @@ (40 :> RealTxt(25))
                @@ (50 :> IntTxt(0)) @@ (51 :> IntTxt(90))
CircleRecords ==
    {Record(Word("CIRCLE"), PairsOf(<<10, 20, 40>>, S, CircleValue, bad)) :
        S \in SUBSET {10, 20, 40}, bad \in {0, 40}}
ArcRecords ==
    {Record(Word("ARC"), PairsOf(<<10, 20, 40, 50, 51>>, S, CircleValue, bad)) :
        S \in SUBSET {10, 20, 40, 50, 51}, bad \in {0, 50}}

\* vertex i of a polyline record: (i, 2i + 0.5, 1)
VertexPairs(i, withZ) ==
    <<<<10, IntTxt(i)>>, <<20, RealTxt(20 * i + 5)>>>>
    \o (IF withZ THEN <<<<30, IntTxt(1)>>>> ELSE <<>>)
RECURSIVE VerticesPairs(_, _)
VerticesPairs(n, withZ) ==
    IF n = 0 THEN <<>> ELSE VerticesPairs(n - 1, withZ) \o VertexPairs(n, withZ)
PolylineFlags == {<<>>, <<<<70, IntTxt(0)>>>>, <<<<70, IntTxt(1)>>>>, <<<<70, IntTxt(8)>>>>,
                  <<<<70, IntTxt(9)>>>>, <<<<70, Garbage>>>>}
PolylineRecords ==
    {Record(Word(type), flags \o VerticesPairs(n, withZ)) :
        type \in {"POLYLINE", "LWPOLYLINE"}, flags \in PolylineFlags,
        n \in 0..MaxVerts, withZ \in BOOLEAN}

\* corner i of a 3DFACE record, whole, without its z, or absent
CornerPoint == <<<<0, 0, 0>>, <<5, 0, 0>>, <<5, 5, 1>>, <<0, 5, 1>>>>
CornerPairs(i, how, bad) ==
    CASE how = "whole" ->
            <<<<10 + i, IF bad THEN Garbage ELSE IntTxt(CornerPoint[i + 1][1])>>,
              <<20 + i, IntTxt(CornerPoint[i + 1][2])>>,
              <<30 + i, RealTxt(10 * CornerPoint[i + 1][3])>>>>
      [] how = "noZ" ->
            <<<<10 + i, IF bad THEN Garbage ELSE IntTxt(CornerPoint[i + 1][1])>>,
              <<20 + i, IntTxt(CornerPoint[i + 1][2])>>>>
      [] OTHER -> <<>>
FaceRecords ==
    {Record(NumWord(3, "3DFACE"),
            CornerPairs(0, h[0], bad = 0) \o CornerPairs(1, h[1], bad = 1)
            \o CornerPairs(2, h[2], bad = 2) \o CornerPairs(3, h[3], bad = 3)) :
        h \in [0..3 -> {"whole", "noZ", "none"}], bad \in {-1, 0, 3}}

OtherRecords ==
    {Record(Word("POINT"), <<<<10, RealTxt(0)>>, <<20, RealTxt(0)>>>>),
     Record(Word("LINE"), <<>>) \o <<Raw(BigTxt), Raw(IntTxt(1))>>}

\* records the streams of several entities are made of
FewRecords ==
    {Record(Word("LINE"), PairsOf(<<10, 20, 11, 21>>, {10, 20, 11, 21}, LineValue, 0)),
     Record(Word("LINE"), PairsOf(<<10, 20, 11, 21>>, {10, 20, 11}, LineValue, 0)),
     Record(Word("LINE"), PairsOf(<<10, 20, 11, 21>>, {10, 20, 11, 21}, LineValue, 11)),
     Record(Word("CIRCLE"), PairsOf(<<10, 20, 40>>, {10, 20, 40}, CircleValue, 0)),
     Record(Word("POINT"), <<<<10, RealTxt(0)>>, <<20, RealTxt(0)>>>>),
     Record(Word("LWPOLYLINE"), <<<<70, IntTxt(1)>>>> \o VerticesPairs(3, FALSE)),
     Record(Word("POLYLINE"), <<<<70, Garbage>>>>),
     Record(NumWord(3, "3DFACE"),
            CornerPairs(0, "whole", FALSE) \o CornerPairs(1, "whole", FALSE)
            \o CornerPairs(2, "whole", FALSE))}

RECURSIVE Concat(_)
Concat(ss) == IF ss = <<>> THEN <<>> ELSE ss[1] \o Concat(Tail(ss))

DxfInputs ==
    LineRecords \cup {ExampleLine} \cup CircleRecords \cup ArcRecords
    \cup PolylineRecords \cup FaceRecords \cup OtherRecords
    \cup {Concat(rs) : rs \in SeqsUpTo(FewRecords, MaxEntities)}

OpaqueInputs == {<<>>, <<Raw(Word("solid"))>>}

Init ==
    /\ entry \in {"iges", "stl", "dxf"}
    /\ buffer \in IF entry = "dxf" THEN DxfInputs ELSE OpaqueInputs
    /\ files = EmptyMap
    /\ pc = "start"
    /\ result = "none"
    /\ idx = 1
    /\ built = <<>>
    /\ compound = <<>>
    /\ node = <<>>
    /\ shapes = <<>>
    /\ DocIdle
    /\ content = <<>>
    /\ pos = ParserInit.pos
    /\ entities = ParserInit.entities
    /\ currentEntity = ParserInit.currentEntity
    /\ currentLayer = ParserInit.currentLayer
    /\ pstat = "idle"
    /\ pairs = ParserInit.pairs

Next ==
    \/ WriteBufferToFile
    \/ IgesReadFile
    \/ IgesTransfer
    \/ StlRead
    \/ DxfOpenFile
    \/ DxfParse
    \/ DxfBuildEntity
    \/ DxfReturn

Spec == Init /\ [][Next]_vars

\* ------------------------------------------ claims on the entry points
\* convertFromDxf has returned or thrown after reading the staged file back
DxfEnded == entry = "dxf" /\ pc = "returned" /\ pstat # "idle"
NonNull(sh) == sh # NullShape
Num(t) == Stod(t).val
IsNumber(t) == t.k \in {"int", "real", "sci", "numword", "big"}

\* C4: a call of convertFromDxf whose buffer was staged and read back returns
\* a node, whatever the text holds, with every entity tried.
C4_NeverFailsOnMalformedInput ==
    DxfEnded => result = "node" /\ Len(built) = Len(entities)

RecognizedTypes ==
    {Word("LINE"), Word("CIRCLE"), Word("ARC"), Word("POLYLINE"), Word("LWPOLYLINE"),
     NumWord(3, "3DFACE")}
CompleteCorners(e) ==
    {i \in 0..3 : Has(e, 10 + i) /\ Has(e, 20 + i) /\ Has(e, 30 + i)}
\* the entity lacks a group code its type requires
LacksRequired(e) ==
    CASE e.type = Word("LINE") -> ~({10, 20, 11, 21} \subseteq DOMAIN e.groupCodes)
      [] e.type = Word("CIRCLE") -> ~({10, 20, 40} \subseteq DOMAIN e.groupCodes)
      [] e.type = Word("ARC") -> ~({10, 20, 40, 50, 51} \subseteq DOMAIN e.groupCodes)
      [] e.type \in {Word("POLYLINE"), Word("LWPOLYLINE")} ->
             ~({10, 20} \subseteq DOMAIN e.groupCodes)
      [] e.type = NumWord(3, "3DFACE") -> Cardinality(CompleteCorners(e)) < 3
      [] OTHER -> FALSE
Omitted(e) == e.type \notin RecognizedTypes \/ LacksRequired(e)

\* C5: entities of an unrecognized type or lacking a required code add no
\* shape and the conversion still returns a node: the compound holds the
\* non-null shapes built, in entity order, and the name counts every entity.
C5_OmittedEntitiesAddNoShape ==
    (DxfEnded /\ pstat = "done") =>
        /\ (\A i \in 1..Len(entities) : Omitted(entities[i])) =>
               result = "node" /\ compound = <<>>
        /\ result = "node" =>
               /\ node.shape.shapes = SelectSeq(built, NonNull)
               /\ node.name[2] = Len(entities)
               /\ Len(built) = Len(entities)
               /\ \A i \in 1..Len(entities) : Omitted(entities[i]) => built[i] = NullShape

\* C6: when a conversion that stages its buffer in a temporary file has
\* returned, the temporary file does not exist.
C6_TempFileRemovedAtReturn ==
    pc = "returned" => DummyFileName(entry) \notin DOMAIN files

CountCode(ps, c) == Cardinality({j \in 1..Len(ps) : ps[j][1] = c})

\* C7: an LWPOLYLINE read from a record that lists n > 2 vertices becomes a
\* wire of n edges when bit 0 of code 70 is set, of n - 1 edges otherwise.
C7_LwPolylineEdgeCount ==
    (/\ DxfEnded /\ pstat = "done" /\ Len(entities) = 1
     /\ entities[1].type = Word("LWPOLYLINE")
     /\ CountCode(pairs, 10) > 2 /\ CountCode(pairs, 20) = CountCode(pairs, 10)
     /\ Has(entities[1], 70) => entities[1].groupCodes[70].k = "int")
    => /\ result = "node"
       /\ built[1].kind = "wire"
       /\ Len(built[1].edges) =
             IF Has(entities[1], 70) /\ entities[1].groupCodes[70].n % 2 = 1
             THEN CountCode(pairs, 10) ELSE CountCode(pairs, 10) - 1

VerticesOf(w) == UNION {{w.edges[j].p1, w.edges[j].p2} : j \in 1..Len(w.edges)}
CornerPnt(e, i) ==
    Pnt(Num(e.groupCodes[10 + i]), Num(e.groupCodes[20 + i]), Num(e.groupCodes[30 + i]))
\* the i-th smallest member of a set of numbers
RECURSIVE Sorted(_)
Sorted(S) ==
    IF S = {} THEN <<>>
    ELSE LET m == CHOOSE x \in S : \A y \in S : x <= y IN <<m>> \o Sorted(S \ {m})

C10_LineNeedsBothEndpoints ==
    /\ \A i \in 1..Len(built) :
          entities[i].type = Word("LINE") =>
             LET gc == entities[i].groupCodes IN
             IF {10, 20, 11, 21} \subseteq DOMAIN gc
             THEN built[i] = LineEdge(Pnt(Num(gc[10]), Num(gc[20]), 0),
                                      Pnt(Num(gc[11]), Num(gc[21]), 0))
             ELSE built[i] = NullShape
    /\ (DxfEnded /\ buffer = ExampleLine) =>
          /\ result = "node"
          /\ Len(entities) = 1
          /\ entities[1].type = Word("LINE")
          /\ node.shape.shapes = <<LineEdge(Pnt(0, 0, 0), Pnt(50, 0, 0))>>

C10_Witness ==
    /\ DxfEnded /\ buffer = ExampleLine /\ result = "node"
    /\ Len(node.shape.shapes) = 1

\* ------------------------------------------------------------- DXF writer
MaxShapes == 2
\* the precision of a std::ostringstream: 6 significant digits
StreamPrecision == 6

RECURSIVE Pow10(_)
Pow10(k) == IF k = 0 THEN 1 ELSE 10 * Pow10(k - 1)
RECURSIVE Digits(_)
Digits(m) == IF m < 10 THEN 1 ELSE 1 + Digits(m \div 10)

\* m >= 0 rounded to StreamPrecision significant digits
Round6(m) ==
    IF Digits(m) <= StreamPrecision THEN m
    ELSE LET p == Pow10(Digits(m) - StreamPrecision)
         IN ((m + p \div 2) \div p) * p

\* dxfStream << v for a double v (in tenths): %g with 6 significant digits,
\* no trailing zeros, exponent form from 1e+06 on
FormatDoubleMutDropsFraction(v) ==
    LET r == Sign(v) * Round6(Abs(v))
    IN IF Abs(r) >= 10 * Pow10(StreamPrecision) THEN SciTxt(r)
       ELSE IntTxt(Sign(r) * (Abs(r) \div 10))

FormatDouble(v) ==
    LET r == Sign(v) * Round6(Abs(v))
    IN IF Abs(r) >= 10 * Pow10(StreamPrecision) THEN SciTxt(r)
       ELSE IF Abs(r) % 10 = 0 THEN IntTxt(Sign(r) * (Abs(r) \div 10))
       ELSE RealTxt(r)

CodeLine(c) == Padded(IntTxt(c))
WordLine(w) == Raw(Word(w))
\* " 10\n" << p.X() << "\n 20\n" << p.Y() << "\n 30\n" << p.Z() << "\n", from code 10 + i on
PointLines(i, p) ==
    <<CodeLine(10 + i), Raw(FormatDouble(p[1])), CodeLine(20 + i), Raw(FormatDouble(p[2])),
      CodeLine(30 + i), Raw(FormatDouble(p[3]))>>

DxfHeader ==
    <<CodeLine(0), WordLine("SECTION"), CodeLine(2), WordLine("HEADER"),
      CodeLine(9), WordLine("$ACADVER"), CodeLine(1), WordLine("AC1015"),
      CodeLine(9), WordLine("$INSUNITS"), CodeLine(70), Raw(IntTxt(4)),
      CodeLine(0), WordLine("ENDSEC"),
      CodeLine(0), WordLine("SECTION"), CodeLine(2), WordLine("TABLES"),
      CodeLine(0), WordLine("TABLE"), CodeLine(2), WordLine("LAYER"),
      CodeLine(0), WordLine("LAYER"), CodeLine(2), Raw(IntTxt(0)),
      CodeLine(70), Raw(IntTxt(0)), CodeLine(62), Raw(IntTxt(7)),
      CodeLine(6), WordLine("CONTINUOUS"),
      CodeLine(0), WordLine("ENDTAB"), CodeLine(0), WordLine("ENDSEC"),
      CodeLine(0), WordLine("SECTION"), CodeLine(2), WordLine("ENTITIES")>>
DxfFooter == <<CodeLine(0), WordLine("ENDSEC"), CodeLine(0), WordLine("EOF")>>

\* An edge as the writer reads it: curve is the dynamic type of
\* BRep_Tool::Curve(edge, first, last) ("line", "circle", "trimmed", another
\* type, or "none" for a null handle); p1 and p2 are curve->Value(first) and
\* curve->Value(last); center, normal and radius are those of the circle, or
\* of the basis circle of a trimmed curve (onCircle); first and last are the
\* parameters of the trimmed curve.
SrcEdge(curve, p1, p2, center, normal, radius, first, last, onCircle) ==
    [curve |-> curve, p1 |-> p1, p2 |-> p2, center |-> center, normal |-> normal,
     radius |-> radius, first |-> first, last |-> last, onCircle |-> onCircle]

\* the record of one edge in the loop over TopExp_Explorer(shape, TopAbs_EDGE)
EdgeLines(edge) ==
    CASE edge.curve = "line" ->
            <<CodeLine(0), WordLine("LINE"), CodeLine(8), Raw(IntTxt(0))>>
            \o PointLines(0, edge.p1) \o PointLines(1, edge.p2)
      [] edge.curve = "circle" ->
            <<CodeLine(0), WordLine("CIRCLE"), CodeLine(8), Raw(IntTxt(0))>>
            \o PointLines(0, edge.center)
            \o <<CodeLine(40), Raw(FormatDouble(edge.radius))>>
      [] edge.curve = "trimmed" /\ edge.onCircle ->
            <<CodeLine(0), WordLine("ARC"), CodeLine(8), Raw(IntTxt(0))>>
            \o PointLines(0, edge.center)
            \o <<CodeLine(40), Raw(FormatDouble(edge.radius)),
                 CodeLine(50), Raw(FormatDouble(edge.first)),
                 CodeLine(51), Raw(FormatDouble(edge.last))>>
      [] OTHER -> <<>>

RECURSIVE EdgesLines(_)
EdgesLines(edges) ==
    IF edges = <<>> THEN <<>> ELSE EdgeLines(edges[1]) \o EdgesLines(Tail(edges))

\* curve->Value(first) of every edge that has a curve
HasCurve(edge) == edge.curve # "none"
StartPoints(edges) ==
    LET es == SelectSeq(edges, HasCurve) IN [i \in 1..Len(es) |-> es[i].p1]

RECURSIVE PointsLines(_)
PointsLines(points) ==
    IF points = <<>> THEN <<>> ELSE PointLines(0, points[1]) \o PointsLines(Tail(points))

\* `if (shape.ShapeType() == TopAbs_WIRE)`
WireLines(shape) ==
    LET points == StartPoints(shape.edges)
    IN IF shape.type = "WIRE" /\ points # <<>>
       THEN <<CodeLine(0), WordLine("LWPOLYLINE"), CodeLine(8), Raw(IntTxt(0)),
              CodeLine(90), Raw(IntTxt(Len(points))), CodeLine(70), Raw(IntTxt(1))>>
            \o PointsLines(points)
       ELSE <<>>

\* `if (shape.ShapeType() == TopAbs_FACE)`
FaceLines(shape) ==
    LET vertices == StartPoints(shape.edges)
    IN IF shape.type = "FACE" /\ Len(vertices) >= 3
       THEN <<CodeLine(0), Raw(NumWord(3, "3DFACE")), CodeLine(8), Raw(IntTxt(0))>>
            \o PointsLines(SubSeq(vertices, 1, Min(Len(vertices), 4)))
       ELSE <<>>

RECURSIVE ShapesLines(_)
ShapesLines(ss) ==
    IF ss = <<>> THEN <<>>
    ELSE EdgesLines(ss[1].edges) \o WireLines(ss[1]) \o FaceLines(ss[1])
         \o ShapesLines(Tail(ss))

\* the text convertToDxf returns, as its lines
convertToDxf(input) == DxfHeader \o ShapesLines(input) \o DxfFooter

\* ------------------------------------------------------ writer's inputs
Origin == Pnt(0, 0, 0)
UnitZ == Pnt(0, 0, 1)
LineSrc(p1, p2) == SrcEdge("line", p1, p2, Origin, UnitZ, 0, 0, 0, FALSE)
\* a full circle about `center`, which starts and ends at `start`
CircleSrc(center, normal, radius, start) ==
    SrcEdge("circle", start, start, center, normal, radius, 0, 3600, FALSE)
TrimmedSrc(center, radius, first, last, onCircle) ==
    SrcEdge("trimmed", center, center, center, UnitZ, radius, first, last, onCircle)
Shape(type, edges) == [type |-> type, edges |-> edges]

SrcShapes ==
    {Shape("EDGE", <<LineSrc(Origin, Pnt(50, 5, 0))>>),
     Shape("EDGE", <<LineSrc(Pnt(50, 0, 10), Pnt(0, 0, 10))>>),
     Shape("EDGE", <<LineSrc(Origin, Pnt(1234567, 0, 0))>>),
     Shape("WIRE", <<LineSrc(Origin, Pnt(50, 0, 0)), LineSrc(Pnt(50, 0, 0), Pnt(50, 50, 0))>>),
     Shape("FACE", <<LineSrc(Origin, Pnt(50, 0, 0)), LineSrc(Pnt(50, 0, 0), Pnt(50, 50, 0)),
                     LineSrc(Pnt(50, 50, 0), Origin)>>),
     Shape("EDGE", <<CircleSrc(Pnt(15, 20, 0), UnitZ, 25, Pnt(40, 20, 0))>>),
     Shape("EDGE", <<CircleSrc(Pnt(15, 20, 10), UnitZ, 25, Pnt(40, 20, 10))>>),
     Shape("EDGE", <<CircleSrc(Origin, Pnt(1, 0, 0), 25, Pnt(0, 25, 0))>>),
     Shape("EDGE", <<CircleSrc(Origin, UnitZ, 12345678, Pnt(12345678, 0, 0))>>),
     Shape("EDGE", <<TrimmedSrc(Origin, 25, 0, 900, TRUE)>>),
     Shape("EDGE", <<TrimmedSrc(Origin, 25, 0, 900, FALSE)>>),
     Shape("VERTEX", <<>>)}

InitRoundTrip ==
    /\ shapes \in SeqsUpTo(SrcShapes, MaxShapes)
    /\ DocIdle
    /\ entry = "todxf"
    /\ buffer = <<>>
    /\ files = EmptyMap
    /\ pc = "write"
    /\ result = "none"
    /\ idx = 1
    /\ built = <<>>
    /\ compound = <<>>
    /\ node = <<>>
    /\ content = <<>>
    /\ pos = ParserInit.pos
    /\ entities = ParserInit.entities
    /\ currentEntity = ParserInit.currentEntity
    /\ currentLayer = ParserInit.currentLayer
    /\ pstat = "idle"
    /\ pairs = ParserInit.pairs

\* convertToDxf(shapes); the text returned is then handed to convertFromDxf
ConvertToDxf ==
    /\ entry = "todxf" /\ pc = "write"
    /\ buffer' = convertToDxf(shapes)
    /\ entry' = "dxf"
    /\ pc' = "start"
    /\ UNCHANGED <<parserVars, files, result, idx, built, compound, node, shapes, docVars>>

NextRoundTrip ==
    \/ ConvertToDxf
    \/ WriteBufferToFile
    \/ DxfOpenFile
    \/ DxfParse
    \/ DxfBuildEntity
    \/ DxfReturn

SpecRoundTrip == InitRoundTrip /\ [][NextRoundTrip]_vars

\* ------------------------------------------------- claims on the round trip
AllSrcEdges(ss) == Concat([i \in 1..Len(ss) |-> ss[i].edges])
AllOfCurve(ss, curve) ==
    LET es == AllSrcEdges(ss) IN es # <<>> /\ \A i \in 1..Len(es) : es[i].curve = curve
\* the places in the parsed list of the entities of one type
PlacesOf(type) == Sorted({i \in 1..Len(entities) : entities[i].type = type})
SignedRound6(v) == Sign(v) * Round6(Abs(v))
Planar(p) == Pnt(SignedRound6(p[1]), SignedRound6(p[2]), 0)
RoundTripEnded == DxfEnded /\ result = "node"

\* C9 as claimed: of shapes whose edges are all lines (all full circles) the
\* parsed list holds one LINE (CIRCLE) entity per edge, in edge order, and the
\* endpoints (center and radius) recorded in it and rebuilt from it equal
\* those of the source edge.
C9_RoundTripExact ==
    RoundTripEnded =>
       LET es == AllSrcEdges(shapes) IN
       /\ AllOfCurve(shapes, "line") =>
            LET at == PlacesOf(Word("LINE")) IN
            /\ Len(at) = Len(es)
            /\ \A j \in 1..Len(at) :
                  LET gc == entities[at[j]].groupCodes IN
                  /\ Pnt(Num(gc[10]), Num(gc[20]), Num(gc[30])) = es[j].p1
                  /\ Pnt(Num(gc[11]), Num(gc[21]), Num(gc[31])) = es[j].p2
                  /\ built[at[j]] = LineEdge(es[j].p1, es[j].p2)
       /\ AllOfCurve(shapes, "circle") =>
            LET at == PlacesOf(Word("CIRCLE")) IN
            /\ Len(at) = Len(es)
            /\ \A j \in 1..Len(at) :
                  LET gc == entities[at[j]].groupCodes IN
                  /\ Pnt(Num(gc[10]), Num(gc[20]), Num(gc[30])) = es[j].center
                  /\ Num(gc[40]) = es[j].radius
                  /\ built[at[j]] = CircleEdge(es[j].center, es[j].normal, es[j].radius, 0, 3600)

\* C9 amended: one LINE (CIRCLE) entity per edge, in edge order; it records
\* the coordinates (and the radius) of the edge rounded to 6 significant
\* digits, and the edge rebuilt from it has the rounded x and y and z = 0 (a
\* circle: the normal +z).
C9_RoundTripPlanarSixDigits ==
    RoundTripEnded =>
       LET es == AllSrcEdges(shapes)
           recorded(p) == Pnt(SignedRound6(p[1]), SignedRound6(p[2]), SignedRound6(p[3]))
       IN
       /\ AllOfCurve(shapes, "line") =>
            LET at == PlacesOf(Word("LINE")) IN
            /\ Len(at) = Len(es)
            /\ \A j \in 1..Len(at) :
                  LET gc == entities[at[j]].groupCodes IN
                  /\ Pnt(Num(gc[10]), Num(gc[20]), Num(gc[30])) = recorded(es[j].p1)
                  /\ Pnt(Num(gc[11]), Num(gc[21]), Num(gc[31])) = recorded(es[j].p2)
                  /\ built[at[j]] = LineEdge(Planar(es[j].p1), Planar(es[j].p2))
       /\ AllOfCurve(shapes, "circle") =>
            LET at == PlacesOf(Word("CIRCLE")) IN
            /\ Len(at) = Len(es)
            /\ \A j \in 1..Len(at) :
                  LET gc == entities[at[j]].groupCodes IN
                  /\ Pnt(Num(gc[10]), Num(gc[20]), Num(gc[30])) = recorded(es[j].center)
                  /\ Num(gc[40]) = SignedRound6(es[j].radius)
                  /\ built[at[j]] = CircleEdge(Planar(es[j].center), UnitZ,
                                               SignedRound6(es[j].radius), 0, 3600)

C9_Witness ==
    /\ RoundTripEnded
    /\ AllOfCurve(shapes, "line")
    /\ Len(AllSrcEdges(shapes)) >= 3
    /\ \E i \in 1..Len(built) : built[i] = LineEdge(Origin, Pnt(50, 5, 0))

\* ------------------------------------- specification of the label functions
\* a run draws a document and makes one call on it: getLabelName or
\* getLabelColor on a label (one recursive call per step), isMeshNode on a
\* label, or parseNodeFromDocument
InitDoc ==
    /\ document \in Documents
    /\ frame = NoFrame
    /\ verdict = <<>>
    /\ shapes = <<>>
    /\ entry = "doc"
    /\ buffer = <<>>
    /\ files = EmptyMap
    /\ pc = "idle"
    /\ result = "none"
    /\ idx = 1
    /\ built = <<>>
    /\ compound = <<>>
    /\ node = <<>>
    /\ content = <<>>
    /\ pos = ParserInit.pos
    /\ entities = ParserInit.entities
    /\ currentEntity = ParserInit.currentEntity
    /\ currentLayer = ParserInit.currentLayer
    /\ pstat = "idle"
    /\ pairs = ParserInit.pairs

NoCallYet == frame = NoFrame /\ verdict = <<>> /\ result = "none"

GetLabelName ==
    /\ entry = "doc" /\ NoCallYet
    /\ \E label \in LabelsOf(document) : frame' = StartFrame("name", label)
    /\ UNCHANGED <<parserVars, convertVars, shapes, document, verdict>>

GetLabelColor ==
    /\ entry = "doc" /\ NoCallYet
    /\ \E label \in LabelsOf(document) : frame' = StartFrame("color", label)
    /\ UNCHANGED <<parserVars, convertVars, shapes, document, verdict>>

\* the running call returns or calls itself on the referred-to label
Resolve ==
    /\ entry = "doc" /\ frame.status = "run"
    /\ frame' = ResolveStep(document, frame)
    /\ UNCHANGED <<parserVars, convertVars, shapes, document, verdict>>

IsMeshNode ==
    /\ entry = "doc" /\ NoCallYet
    /\ \E label \in LabelsOf(document) : verdict' = <<label, isMeshNode(document, label)>>
    /\ UNCHANGED <<parserVars, convertVars, shapes, document, frame>>

ParseNodeFromDocument ==
    /\ entry = "doc" /\ NoCallYet
    /\ node' = parseNodeFromDocument(document)
    /\ result' = "node"
    /\ UNCHANGED <<parserVars, entry, buffer, files, pc, idx, built, compound,
                   shapes, docVars>>

NextDoc ==
    \/ GetLabelName
    \/ GetLabelColor
    \/ Resolve
    \/ IsMeshNode
    \/ ParseNodeFromDocument

SpecDoc == InitDoc /\ [][NextDoc]_vars

\* the specification under the scheduling of a call: a call that can make
\* its next step makes it
SpecDocLive == SpecDoc /\ WF_vars(Resolve)

\* --------------------------------------------- claims on the node trees
\* the nodes of the tree below (and including) n
RECURSIVE NodesOf(_)
NodesOf(n) == {n} \cup UNION {NodesOf(n.children[i]) : i \in 1..Len(n.children)}

\* C11: every node of the tree an entry point returned (from a document, from
\* an STL file, from a DXF text) has a shape or a non-empty children sequence.
C11_NodeHasShapeOrChildren ==
    result = "node" =>
       \A n \in NodesOf(node) : n.shape # NullOpt \/ n.children # <<>>

\* ------------------------------------ claims on name and color resolution
Resolved(fn, label) == ResolveRun(document, StartFrame(fn, label))

\* a and b are two reference labels with the same referred-to label
SameReferent(a, b) ==
    /\ a # b
    /\ IsReference(document, a) /\ IsReference(document, b)
    /\ GetReferredShape(document, a) = GetReferredShape(document, b)

SameResult(f, g) == f.value = g.value /\ f.found = g.found

OwnColor(label) == getLabelColorNoRef(document, label).found

\* C12 as claimed: getLabelName, and getLabelColor, return the same for any
\* two reference labels with the same referred-to label, whatever names and
\* colors the two carry themselves.
C12_SameReferentSameResult ==
    frame.status = "done" =>
       \A b \in LabelsOf(document) :
          (SameReferent(frame.label, b) /\ Resolved(frame.fn, b).status = "done")
          => SameResult(frame, Resolved(frame.fn, b))

\* C12 amended: getLabelName returns the same name for any two reference
\* labels with the same referred-to label, whatever names they carry;
\* getLabelColor returns the same found/not-found result and color for both
\* when neither carries a color of its own.
C12_SameReferentSameNameAndInheritedColor ==
    frame.status = "done" =>
       \A b \in LabelsOf(document) :
          (/\ SameReferent(frame.label, b)
           /\ Resolved(frame.fn, b).status = "done"
           /\ frame.fn = "color" => (~OwnColor(frame.label) /\ ~OwnColor(b)))
          => SameResult(frame, Resolved(frame.fn, b))

C12_Witness ==
    /\ frame.status = "done" /\ frame.fn = "name"
    /\ \E b \in LabelsOf(document) :
          /\ SameReferent(frame.label, b)
          /\ document[frame.label].name # <<>>
          /\ document[b].name # <<>>
          /\ document[GetReferredShape(document, b)].name = <<>>

\* C13: a label's own name (own color) is what getLabelName (getLabelColor)
\* returns when the label carries one, also when the label is a reference;
\* the referred-to label is asked only when the own attribute is absent.
C13_OwnAttributeBeforeReference ==
    frame.status = "done" =>
       /\ (frame.fn = "name" /\ document[frame.label].name # <<>>)
          => (frame.value = document[frame.label].name[1] /\ frame.steps = 0)
       /\ (frame.fn = "color" /\ OwnColor(frame.label))
          => /\ frame.found
             /\ frame.value = getLabelColorNoRef(document, frame.label).color
             /\ frame.steps = 0

\* ------------------------------------------------- claims on isMeshNode
ChildSet(label) == {c \in LabelsOf(document) \ {0} : document[c].father = label}

\* C14: isMeshNode(label) is true exactly when the label has no child label,
\* or some child label is a sub-shape, or no child label is a free shape.
C14_MeshNodeClassification ==
    verdict # <<>> =>
       verdict[2] =
          (\/ ChildSet(verdict[1]) = {}
           \/ \E c \in ChildSet(verdict[1]) : document[c].sub
           \/ ~ \E c \in ChildSet(verdict[1]) :
                   document[c].shape # <<>> /\ document[c].free)

C14_Witness ==
    /\ verdict # <<>> /\ verdict[2]
    /\ \E c \in ChildSet(verdict[1]) : document[c].sub
    /\ \E c \in ChildSet(verdict[1]) : document[c].shape # <<>> /\ document[c].free

\* ----------------------------------------------- claims on the children
\* the node n is what a shape becomes: a group node with one child per
\* component, in order, for a compound or composite solid, else a leaf
RECURSIVE NodeOfShape(_, _)
NodeOfShape(shape, n) ==
    IF shape.type \in {"COMPOUND", "COMPSOLID"}
    THEN /\ n.shape = NullOpt
         /\ Len(n.children) = Len(shape.parts)
         /\ \A i \in 1..Len(shape.parts) : NodeOfShape(shape.parts[i], n.children[i])
    ELSE n.shape = shape /\ n.children = <<>>

FreeShapeChild(c) == document[c].shape # <<>> /\ document[c].free

\* the node n is what the label becomes; asRoot: the label is the root label
RECURSIVE NodeOfLabel(_, _, _)
NodeOfLabel(label, n, asRoot) ==
    IF ~asRoot /\ isMeshNode(document, label)
    THEN NodeOfShape(document[label].shape[1], n)
    ELSE LET fc == SelectSeq(Children(document, label), FreeShapeChild)
         IN /\ n.shape = NullOpt
            /\ n.name = <<getLabelNameNoRef(document, label)>>
            /\ Len(n.children) = Len(fc)
            /\ \A i \in 1..Len(fc) : NodeOfLabel(fc[i], n.children[i], FALSE)

\* C15: for the root label and every label that is not a mesh node, the
\* children of the node built are, in document order, the nodes of exactly
\* the child labels that are free shapes; a compound or composite solid gets
\* one child per immediate component, in iteration order.
C15_ChildrenAreFreeShapeChildren ==
    (entry = "doc" /\ result = "node") => NodeOfLabel(0, node, TRUE)

C15_Witness ==
    /\ entry = "doc" /\ result = "node"
    /\ Len(Children(document, 0)) = 1
    /\ Len(Children(document, 1)) = 1
    /\ ~isMeshNode(document, 1)
    /\ Len(node.children) = 1
    /\ Len(node.children[1].children) = 1
    /\ Len(node.children[1].children[1].children) = 2

\* ------------------------------------------- claims on the written wires
\* the number of code-c pairs of the record of the i-th entity
CodesInRecord(ps, i, c) ==
    Cardinality({j \in 1..Len(ps) :
                    /\ ps[j][1] = c
                    /\ \E z \in ZeroIdx(ps) :
                          /\ Cardinality({x \in ZeroIdx(ps) : x <= z}) = i
                          /\ z < j /\ j < CloseIdx(ps, i)})

\* C16: convertToDxf writes one LWPOLYLINE record for every shape that is a
\* wire; its code 90 is the number of vertices the record lists and its code
\* 70 has bit 0 clear (the polyline is open).
C16_WirePolylineIsOpen ==
    (RoundTripEnded /\ pstat = "done") =>
       /\ Cardinality({i \in 1..Len(entities) : entities[i].type = Word("LWPOLYLINE")})
             = Cardinality({k \in 1..Len(shapes) : shapes[k].type = "WIRE"})
       /\ \A i \in 1..Len(entities) :
             entities[i].type = Word("LWPOLYLINE") =>
                /\ Has(entities[i], 90)
                /\ Stoi(entities[i].groupCodes[90]).val = CodesInRecord(pairs, i, 10)
                /\ Has(entities[i], 70)
                /\ ~BitSet(Stoi(entities[i].groupCodes[70]).val, 1)

\* ---------------------------------------------- claims on termination
\* the number of references followed from label until a label that is not a
\* reference, -1 when there are more than fuel
RECURSIVE ChainLength(_, _)
ChainLength(label, fuel) ==
    IF ~IsReference(document, label) THEN 0
    ELSE IF fuel = 0 THEN -1
         ELSE IF ChainLength(GetReferredShape(document, label), fuel - 1) = -1 THEN -1
              ELSE 1 + ChainLength(GetReferredShape(document, label), fuel - 1)

ChainOf(label) == ChainLength(label, Cardinality(LabelsOf(document)))

Acyclic == document # <<>> /\ \A l \in LabelsOf(document) : ChainOf(l) >= 0

\* the label k references after label
RECURSIVE Referred(_, _)
Referred(label, k) ==
    IF k = 0 THEN label ELSE GetReferredShape(document, Referred(label, k - 1))

\* C17: in a document whose references are acyclic a call of getLabelName or
\* getLabelColor on a label makes at most as many recursive calls as the
\* reference chain of the label is long, each step returns or moves to the
\* referred-to label, and the call returns.
C17_ResolutionTerminates ==
    /\ [](Acyclic /\ frame.status # "idle"
          => /\ frame.status \in {"run", "done"}
             /\ frame.steps <= ChainOf(frame.label)
             /\ frame.cur = Referred(frame.label, frame.steps))
    /\ [][(Acyclic /\ frame.status = "run")
          => \/ frame'.status = "done" /\ frame'.steps = frame.steps
             \/ /\ frame'.status = "run"
                /\ IsReference(document, frame.cur)
                /\ frame'.cur = GetReferredShape(document, frame.cur)
                /\ frame'.steps = frame.steps + 1]_vars
    /\ ((Acyclic /\ frame.status = "run") ~> (frame.status = "done"))

C17_Witness ==
    /\ Acyclic
    /\ frame.status = "done"
    /\ frame.steps = 2
    /\ ChainOf(frame.label) = 2

====
